---- MODULE Spec2Model ----
(***************************************************************************)
(* Model of the DEL command of mini-redis (src/cmd/del.rs): decoding the   *)
(* command from the argument cursor (Del::parse_frames), applying it to    *)
(* the shared Db and writing the reply (Del::apply), and encoding it back  *)
(* into a frame (Del::into_frame).                                         *)
(*                                                                         *)
(* Strings are sequences of code points, byte strings are sequences of     *)
(* bytes; the two are related by UTF-8 (1- and 2-byte forms are modelled). *)
(***************************************************************************)
EXTENDS Integers, Sequences, FiniteSets, TLC

\* ------------------------------------------------------------------ bounds
\* longest key list of a command handed to apply
MaxKeys == 3
\* longest argument list handed to parse_frames
MaxArgs == 3
\* commands one connection executes one after the other
MaxCmds == 2
\* longest key list of a command when two connections apply concurrently
MaxKeysTwo == 2

\* ------------------------------------------------------------ basic values
Conns == {1, 2}

KeyA == <<97>>
KeyB == <<98>>
KeyC == <<99>>
\* "é": one code point, two bytes in UTF-8
KeyE == <<233>>
Keys == {KeyA, KeyB, KeyC}
\* the keys two concurrent commands are drawn from
KeysTwo == {KeyA, KeyB}
Values == {1, 2}
Absent == 0

\* Option<Del>: None, or Some(Del { keys })
NoDel == [some |-> FALSE, keys |-> <<>>]
SomeDel(ks) == [some |-> TRUE, keys |-> ks]

Range(q) == {q[i] : i \in 1..Len(q)}
SeqsUpTo(S, n) == UNION {[1..m -> S] : m \in 0..n}

\* ------------------------------------------------------------------- UTF-8
\* String::into_bytes: the UTF-8 encoding of a string
RECURSIVE Utf8Encode(_)
Utf8Encode(s) ==
    IF s = <<>> THEN <<>>
    ELSE LET cp == Head(s) IN
         (IF cp < 128 THEN <<cp>>
          ELSE <<192 + (cp \div 64), 128 + (cp % 64)>>) \o Utf8Encode(Tail(s))

\* str::from_utf8: is the byte string well-formed UTF-8
RECURSIVE ValidUtf8(_)
ValidUtf8(b) ==
    IF b = <<>> THEN TRUE
    ELSE IF Head(b) < 128 THEN ValidUtf8(Tail(b))
    ELSE IF Head(b) >= 194 /\ Head(b) <= 223
         THEN /\ Len(b) >= 2
              /\ b[2] >= 128 /\ b[2] <= 191
              /\ ValidUtf8(Tail(Tail(b)))
    ELSE FALSE

\* str::from_utf8 followed by to_string, on a well-formed byte string
RECURSIVE Utf8Decode(_)
Utf8Decode(b) ==
    IF b = <<>> THEN <<>>
    ELSE IF Head(b) < 128 THEN <<Head(b)>> \o Utf8Decode(Tail(b))
    ELSE <<(Head(b) - 192) * 64 + (b[2] - 128)>> \o Utf8Decode(Tail(Tail(b)))

\* ------------------------------------------------------------------ frames
Bulk(bytes) == [type |-> "Bulk", data |-> bytes]
Simple(str) == [type |-> "Simple", data |-> str]
Integer(n) == [type |-> "Integer", val |-> n]
Null == [type |-> "Null"]
Array(elems) == [type |-> "Array", elems |-> elems]
NoFrame == [type |-> "None"]

\* "del".as_bytes()
DelName == <<100, 101, 108>>

\* the elements a received argument list is drawn from: bulk strings (one of
\* them two bytes long, one not UTF-8), a simple string, an integer, a null
ArgFrames ==
    {Bulk(<<97>>), Bulk(<<98>>), Bulk(<<195, 169>>), Bulk(<<255>>),
     Simple(KeyA), Integer(1), Null}

\* ------------------------------------------------------------------- state
VARIABLES
    \* Db: key -> value, Absent when the key has no entry
    db,
    \* per connection: where its handler stands
    pc,
    \* per connection: self.keys of the Del being applied
    cmd,
    \* per connection: keys of self.keys.iter() already visited
    idx,
    \* per connection: the local count of apply
    count,
    \* per connection: frames written to dst so far
    dst,
    \* per connection: what apply returned ("none" while running)
    ret,
    \* per connection: commands started so far
    ncmds,
    \* history, per connection: results of the db.del calls of this apply
    calls,
    \* history, per connection: Db when apply started; Interfered once some
    \* other connection changed the Db after that
    snap,
    \* history: the db.del calls of the applies in hand, in the order they were
    \* made: connection, key, and what the call returned
    log,
    \* history: Db when an apply started with no other apply in hand; Interfered
    \* once a connection outside Conns changed the Db after that
    base,
    \* history, per connection: keys and reply of its previous command, kept
    \* while that apply ran undisturbed, none of the keys was set since and the
    \* next command has the same keys (NoPrev else)
    prev,
    \* history, per connection: write_frame calls of this apply
    wr,
    \* Parse: the array elements after the command name, and the cursor
    parts, pos,
    \* parse_frames: position, the local keys, and the outcome
    ppc, pkeys, pres,
    \* the Del value in hand (NoDel when there is none)
    del,
    \* history: next_string calls made by parse_frames
    reads,
    \* result of into_frame (NoFrame before it ran)
    frame,
    \* history: the Del that into_frame consumed
    enc

execVars == <<db, pc, cmd, idx, count, dst, ret, ncmds, calls, snap,
              log, base, prev, wr>>
codecVars == <<parts, pos, ppc, pkeys, pres, del, reads, frame, enc>>
vars == <<db, pc, cmd, idx, count, dst, ret, ncmds, calls, snap,
          log, base, prev, wr,
          parts, pos, ppc, pkeys, pres, del, reads, frame, enc>>

\* the Db with no entry at all
EmptyDb == [k \in Keys |-> Absent]
Stores == [Keys -> Values \cup {Absent}]
Interfered == [ok |-> FALSE, db |-> EmptyDb]
Snapshot(d) == [ok |-> TRUE, db |-> d]
NoPrev == [ok |-> FALSE, keys |-> <<>>, count |-> 0]
\* a previous command with keys ks whose reply was Integer(n)
PrevCmd(ks, n) == [ok |-> TRUE, keys |-> ks, count |-> n]
\* the entry of log for a db.del(key) call of connection c that returned r
Call(c, key, r) == [conn |-> c, key |-> key, removed |-> r]

\* --------------------------------------------------------- argument cursor
\* Parse::next_string: the next element as a string, EndOfStream when no
\* element is left, Other when the element is not a string
NextString(ps, p) ==
    IF p >= Len(ps) THEN [kind |-> "EndOfStream", s |-> <<>>]
    ELSE LET f == ps[p + 1] IN
         IF f.type = "Simple" THEN [kind |-> "Ok", s |-> f.data]
         ELSE IF f.type = "Bulk" /\ ValidUtf8(f.data)
              THEN [kind |-> "Ok", s |-> Utf8Decode(f.data)]
         ELSE [kind |-> "Other", s |-> <<>>]

\* the cursor after a next_string call: one element further unless exhausted
Advance(ps, p) == IF p >= Len(ps) THEN p ELSE p + 1

\* ------------------------------------------------------------ parse_frames
\* a key already in keys is not pushed again
PushDedup(keys, s) == IF s \in Range(keys) THEN keys ELSE Append(keys, s)

\* keys.push(s)
Push(keys, s) == Append(keys, s)

\* every Err ends the loop: Err(_) => break
LoopMatchErrBreaks(r) == IF r.kind = "Ok" THEN "push" ELSE "break"

\* a string read in the loop ends it: Ok(_) => break
LoopMatchOkBreaks(r) == IF r.kind = "Other" THEN "return" ELSE "break"

\* the arms of the match on parse.next_string() in the loop
LoopMatch(r) ==
    IF r.kind = "Ok" THEN "push"
    ELSE IF r.kind = "EndOfStream" THEN "break"
    ELSE "return"

\* the first read is a turn of the loop like the others: no mandatory key
ParseFirstNoMandatory ==
    /\ ppc = "start"
    /\ LET r == NextString(parts, pos) IN
         /\ pos' = Advance(parts, pos)
         /\ reads' = reads + 1
         /\ IF LoopMatch(r) = "push"
            THEN /\ pkeys' = <<r.s>>
                 /\ ppc' = "loop"
                 /\ UNCHANGED <<pres, del>>
            ELSE IF LoopMatch(r) = "break"
            THEN /\ pkeys' = <<>>
                 /\ ppc' = "ret"
                 /\ pres' = "Ok"
                 /\ del' = SomeDel(<<>>)
            ELSE /\ pkeys' = <<>>
                 /\ ppc' = "ret"
                 /\ pres' = r.kind
                 /\ del' = NoDel
    /\ UNCHANGED <<parts, frame, enc>>
    /\ UNCHANGED execVars

\* let key = parse.next_string()?; keys.push(key)
ParseFirst ==
    /\ ppc = "start"
    /\ LET r == NextString(parts, pos) IN
         /\ pos' = Advance(parts, pos)
         /\ reads' = reads + 1
         /\ IF r.kind = "Ok"
            THEN /\ pkeys' = <<r.s>>
                 /\ ppc' = "loop"
                 /\ UNCHANGED <<pres, del>>
            ELSE /\ pkeys' = <<>>
                 /\ ppc' = "ret"
                 /\ pres' = r.kind
                 /\ del' = NoDel
    /\ UNCHANGED <<parts, frame, enc>>
    /\ UNCHANGED execVars

\* one turn of the loop: push, break and return Ok(Del { keys }), or return Err
ParseLoop ==
    /\ ppc = "loop"
    /\ LET r == NextString(parts, pos) IN
         /\ pos' = Advance(parts, pos)
         /\ reads' = reads + 1
         /\ IF LoopMatch(r) = "push"
            THEN /\ pkeys' = Push(pkeys, r.s)
                 /\ UNCHANGED <<ppc, pres, del>>
            ELSE IF LoopMatch(r) = "break"
            THEN /\ ppc' = "ret"
                 /\ pres' = "Ok"
                 /\ del' = SomeDel(pkeys)
                 /\ pkeys' = <<>>
            ELSE /\ ppc' = "ret"
                 /\ pres' = r.kind
                 /\ del' = NoDel
                 /\ pkeys' = <<>>
    /\ UNCHANGED <<parts, frame, enc>>
    /\ UNCHANGED execVars

\* -------------------------------------------------------------- into_frame
\* the keys are pushed last to first
RECURSIVE PushKeysReversed(_, _)
PushKeysReversed(elems, keys) ==
    IF keys = <<>> THEN elems
    ELSE Append(PushKeysReversed(elems, Tail(keys)), Bulk(Utf8Encode(Head(keys))))

\* for key in self.keys.iter() { frame.push_bulk(key.clone().into_bytes()) }
RECURSIVE PushKeys(_, _)
PushKeys(elems, keys) ==
    IF keys = <<>> THEN elems
    ELSE PushKeys(Append(elems, Bulk(Utf8Encode(Head(keys)))), Tail(keys))

\* the command name is not pushed
IntoFrameNoName(keys) == Array(PushKeys(<<>>, keys))

\* let mut frame = Frame::array(); frame.push_bulk("del"); the loop; frame
IntoFrame(keys) == Array(PushKeys(<<Bulk(DelName)>>, keys))

\* Del::new(keys), on the client side
NewDel ==
    /\ ppc = "idle"
    /\ del = NoDel
    /\ frame = NoFrame
    /\ \E ks \in SeqsUpTo({KeyA, KeyB, KeyE}, MaxArgs) : del' = SomeDel(ks)
    /\ UNCHANGED <<parts, pos, ppc, pkeys, pres, reads, frame, enc>>
    /\ UNCHANGED execVars

\* encoding the Del also writes the frame to the connection
EncodeAndSend ==
    /\ ppc \in {"idle", "ret"}
    /\ del # NoDel
    /\ frame = NoFrame
    /\ frame' = IntoFrame(del.keys)
    /\ enc' = del
    /\ del' = NoDel
    /\ dst' = [dst EXCEPT ![1] = Append(@, IntoFrame(del.keys))]
    /\ UNCHANGED <<parts, pos, ppc, pkeys, pres, reads>>
    /\ UNCHANGED <<db, pc, cmd, idx, count, ret, ncmds, calls, snap,
                   log, base, prev, wr>>

\* self.into_frame(), which consumes the Del
Encode ==
    /\ ppc \in {"idle", "ret"}
    /\ del # NoDel
    /\ frame = NoFrame
    /\ frame' = IntoFrame(del.keys)
    /\ enc' = del
    /\ del' = NoDel
    /\ UNCHANGED <<parts, pos, ppc, pkeys, pres, reads>>
    /\ UNCHANGED execVars

\* --------------------------------------------------------------------- Db
\* Db::del: whether the key had an entry
DbDelReturns(d, key) == d[key] # Absent
\* Db::del: the Db afterwards
DbDel(d, key) == [d EXCEPT ![key] = Absent]
\* Db::set
DbSet(d, key, v) == [d EXCEPT ![key] = v]

\* the snapshots after connection c (0: a connection outside Conns) moved the
\* Db from d to e: every other running or finished apply has been interfered
Disturb(c, d, e) ==
    [x \in Conns |->
        IF x # c /\ d # e /\ pc[x] \in {"loop", "write", "done"}
        THEN Interfered ELSE snap[x]]

\* ------------------------------------------------------------------- apply
\* is no connection other than c applying a command or holding its result
Alone(c) == \A x \in Conns \ {c} : pc[x] \in {"idle", "closed"}

\* apply starts with count = 1
ApplyStartsCountOne(c, ks) ==
    /\ pc[c] = "idle"
    /\ ncmds[c] < MaxCmds
    /\ cmd' = [cmd EXCEPT ![c] = ks]
    /\ pc' = [pc EXCEPT ![c] = "loop"]
    /\ idx' = [idx EXCEPT ![c] = 0]
    /\ count' = [count EXCEPT ![c] = 1]
    /\ ret' = [ret EXCEPT ![c] = "none"]
    /\ ncmds' = [ncmds EXCEPT ![c] = @ + 1]
    /\ calls' = [calls EXCEPT ![c] = <<>>]
    /\ snap' = [snap EXCEPT ![c] = Snapshot(db)]
    /\ base' = IF Alone(c) THEN Snapshot(db) ELSE base
    /\ prev' = [prev EXCEPT ![c] = IF @.ok /\ @.keys = ks THEN @ ELSE NoPrev]
    /\ wr' = [wr EXCEPT ![c] = 0]
    /\ UNCHANGED <<db, dst, log>>

\* apply is called on Del { keys: ks } by the handler of c: let mut count = 0
ApplyStarts(c, ks) ==
    /\ pc[c] = "idle"
    /\ ncmds[c] < MaxCmds
    /\ cmd' = [cmd EXCEPT ![c] = ks]
    /\ pc' = [pc EXCEPT ![c] = "loop"]
    /\ idx' = [idx EXCEPT ![c] = 0]
    /\ count' = [count EXCEPT ![c] = 0]
    /\ ret' = [ret EXCEPT ![c] = "none"]
    /\ ncmds' = [ncmds EXCEPT ![c] = @ + 1]
    /\ calls' = [calls EXCEPT ![c] = <<>>]
    /\ snap' = [snap EXCEPT ![c] = Snapshot(db)]
    /\ base' = IF Alone(c) THEN Snapshot(db) ELSE base
    /\ prev' = [prev EXCEPT ![c] = IF @.ok /\ @.keys = ks THEN @ ELSE NoPrev]
    /\ wr' = [wr EXCEPT ![c] = 0]
    /\ UNCHANGED <<db, dst, log>>

\* a connection's handler gets a Del { keys } and calls apply
Start(c) ==
    /\ \E ks \in SeqsUpTo(Keys, MaxKeys) : ApplyStarts(c, ks)
    /\ UNCHANGED codecVars

\* the iterator stops one key early
HasNextShort(ks, i) == i < Len(ks) - 1

\* self.keys.iter(): is there a key left after i of them were visited
HasNext(ks, i) == i < Len(ks)

\* count += 1 whatever db.del returned
CountAfterAlways(cnt, removed) == cnt + 1

\* count += 1 when db.del returned false
CountAfterInverted(cnt, removed) == IF removed THEN cnt ELSE cnt + 1

\* if db.del(key) { count += 1 }
CountAfter(cnt, removed) == IF removed THEN cnt + 1 ELSE cnt

\* the Db without any of the keys ks
RECURSIVE DbDelAll(_, _)
DbDelAll(d, ks) ==
    IF ks = <<>> THEN d ELSE DbDelAll(DbDel(d, Head(ks)), Tail(ks))

\* a turn of the loop removes every key of the command at once
DelStepAll(c) ==
    /\ pc[c] = "loop"
    /\ HasNext(cmd[c], idx[c])
    /\ LET key == cmd[c][idx[c] + 1]
           removed == DbDelReturns(db, key)
       IN /\ db' = DbDelAll(db, cmd[c])
          /\ count' = [count EXCEPT ![c] = CountAfter(@, removed)]
          /\ calls' = [calls EXCEPT ![c] = Append(@, removed)]
          /\ snap' = Disturb(c, db, DbDelAll(db, cmd[c]))
          /\ log' = Append(log, Call(c, key, removed))
    /\ idx' = [idx EXCEPT ![c] = @ + 1]
    /\ UNCHANGED <<pc, cmd, dst, ret, ncmds, base, prev, wr>>
    /\ UNCHANGED codecVars

\* the loop visits the keys last to first
DelStepReversed(c) ==
    /\ pc[c] = "loop"
    /\ HasNext(cmd[c], idx[c])
    /\ LET key == cmd[c][Len(cmd[c]) - idx[c]]
           removed == DbDelReturns(db, key)
       IN /\ db' = DbDel(db, key)
          /\ count' = [count EXCEPT ![c] = CountAfter(@, removed)]
          /\ calls' = [calls EXCEPT ![c] = Append(@, removed)]
          /\ snap' = Disturb(c, db, DbDel(db, key))
          /\ log' = Append(log, Call(c, key, removed))
    /\ idx' = [idx EXCEPT ![c] = @ + 1]
    /\ UNCHANGED <<pc, cmd, dst, ret, ncmds, base, prev, wr>>
    /\ UNCHANGED codecVars

\* one turn of the for loop
DelStep(c) ==
    /\ pc[c] = "loop"
    /\ HasNext(cmd[c], idx[c])
    /\ LET key == cmd[c][idx[c] + 1]
           removed == DbDelReturns(db, key)
       IN /\ db' = DbDel(db, key)
          /\ count' = [count EXCEPT ![c] = CountAfter(@, removed)]
          /\ calls' = [calls EXCEPT ![c] = Append(@, removed)]
          /\ snap' = Disturb(c, db, DbDel(db, key))
          /\ log' = Append(log, Call(c, key, removed))
    /\ idx' = [idx EXCEPT ![c] = @ + 1]
    /\ UNCHANGED <<pc, cmd, dst, ret, ncmds, base, prev, wr>>
    /\ UNCHANGED codecVars

\* the reply is written from inside the loop, with keys left to visit
LoopEndEarly(c) ==
    /\ pc[c] = "loop"
    /\ pc' = [pc EXCEPT ![c] = "write"]
    /\ wr' = [wr EXCEPT ![c] = @ + 1]
    /\ UNCHANGED <<db, cmd, idx, count, dst, ret, ncmds, calls, snap, log, base, prev>>
    /\ UNCHANGED codecVars

\* the iterator is exhausted: let response = Frame::Integer(count), and
\* dst.write_frame(&response) is started
LoopEnd(c) ==
    /\ pc[c] = "loop"
    /\ ~HasNext(cmd[c], idx[c])
    /\ pc' = [pc EXCEPT ![c] = "write"]
    /\ wr' = [wr EXCEPT ![c] = @ + 1]
    /\ UNCHANGED <<db, cmd, idx, count, dst, ret, ncmds, calls, snap, log, base, prev>>
    /\ UNCHANGED codecVars

\* dst.write_frame(&response).await succeeded: Ok(())
WriteOk(c) ==
    /\ pc[c] = "write"
    /\ dst' = [dst EXCEPT ![c] = Append(@, Integer(count[c]))]
    /\ ret' = [ret EXCEPT ![c] = "Ok"]
    /\ pc' = [pc EXCEPT ![c] = "done"]
    /\ UNCHANGED <<db, cmd, idx, count, ncmds, calls, snap, log, base, prev, wr>>
    /\ UNCHANGED codecVars

\* a failed write puts the entries the apply removed back
WriteErrRollback(c) ==
    /\ pc[c] = "write"
    /\ ret' = [ret EXCEPT ![c] = "Err"]
    /\ pc' = [pc EXCEPT ![c] = "done"]
    /\ db' = [k \in Keys |->
                IF k \in Range(cmd[c]) /\ snap[c].ok THEN snap[c].db[k] ELSE db[k]]
    /\ UNCHANGED <<cmd, idx, count, dst, ncmds, calls, snap, log, base, prev, wr>>
    /\ UNCHANGED codecVars

\* a failed write is answered with an error frame
WriteErrReplies(c) ==
    /\ pc[c] = "write"
    /\ ret' = [ret EXCEPT ![c] = "Err"]
    /\ pc' = [pc EXCEPT ![c] = "done"]
    /\ dst' = [dst EXCEPT ![c] = Append(@, [type |-> "Error"])]
    /\ UNCHANGED <<db, cmd, idx, count, ncmds, calls, snap, log, base, prev, wr>>
    /\ UNCHANGED codecVars

\* dst.write_frame(&response).await failed: the ? returns the error
WriteErr(c) ==
    /\ pc[c] = "write"
    /\ ret' = [ret EXCEPT ![c] = "Err"]
    /\ pc' = [pc EXCEPT ![c] = "done"]
    /\ UNCHANGED <<db, cmd, idx, count, dst, ncmds, calls, snap, log, base, prev, wr>>
    /\ UNCHANGED codecVars

\* the peer has read the reply and the handler waits for the next command,
\* the Del and the locals of its apply dropped; after an error the connection
\* is not used again
NextCmd(c) ==
    /\ pc[c] = "done"
    /\ ret[c] = "Ok"
    /\ pc' = [pc EXCEPT ![c] = "idle"]
    /\ dst' = [dst EXCEPT ![c] = <<>>]
    /\ cmd' = [cmd EXCEPT ![c] = <<>>]
    /\ idx' = [idx EXCEPT ![c] = 0]
    /\ count' = [count EXCEPT ![c] = 0]
    /\ ret' = [ret EXCEPT ![c] = "none"]
    /\ calls' = [calls EXCEPT ![c] = <<>>]
    /\ snap' = [snap EXCEPT ![c] = Interfered]
    /\ log' = SelectSeq(log, LAMBDA e : e.conn # c)
    /\ base' = Interfered
    /\ prev' = [prev EXCEPT ![c] = IF snap[c].ok THEN PrevCmd(cmd[c], count[c]) ELSE NoPrev]
    /\ wr' = [wr EXCEPT ![c] = 0]
    /\ UNCHANGED <<db, ncmds>>
    /\ UNCHANGED codecVars

\* a connection outside Conns sets a key
OtherSet ==
    /\ \E k \in Keys, v \in Values :
         /\ db' = DbSet(db, k, v)
         /\ snap' = Disturb(0, db, DbSet(db, k, v))
         /\ base' = IF DbSet(db, k, v) # db THEN Interfered ELSE base
         /\ prev' = [c \in Conns |->
                        IF k \in Range(prev[c].keys) THEN NoPrev ELSE prev[c]]
    /\ UNCHANGED <<pc, cmd, idx, count, dst, ret, ncmds, calls, log, wr>>
    /\ UNCHANGED codecVars

\* a connection outside Conns deletes a key
OtherDel ==
    /\ \E k \in Keys :
         /\ db' = DbDel(db, k)
         /\ snap' = Disturb(0, db, DbDel(db, k))
         /\ base' = IF DbDel(db, k) # db THEN Interfered ELSE base
    /\ UNCHANGED <<pc, cmd, idx, count, dst, ret, ncmds, calls, log, prev, wr>>
    /\ UNCHANGED codecVars

\* ---------------------------------------------------------- specifications
InitExec(open) ==
    /\ db \in Stores
    /\ pc = [c \in Conns |-> IF c \in open THEN "idle" ELSE "closed"]
    /\ cmd = [c \in Conns |-> <<>>]
    /\ idx = [c \in Conns |-> 0]
    /\ count = [c \in Conns |-> 0]
    /\ dst = [c \in Conns |-> <<>>]
    /\ ret = [c \in Conns |-> "none"]
    /\ ncmds = [c \in Conns |-> 0]
    /\ calls = [c \in Conns |-> <<>>]
    /\ snap = [c \in Conns |-> Interfered]
    /\ log = <<>>
    /\ base = Interfered
    /\ prev = [c \in Conns |-> NoPrev]
    /\ wr = [c \in Conns |-> 0]

InitCodec(mode, args) ==
    /\ parts \in args
    /\ pos = 0
    /\ ppc = mode
    /\ pkeys = <<>>
    /\ pres = "none"
    /\ del = NoDel
    /\ reads = 0
    /\ frame = NoFrame
    /\ enc = NoDel

\* one connection applies Del commands while connections outside Conns set
\* and delete keys
Init ==
    /\ InitExec({1})
    /\ InitCodec("idle", {<<>>})

Next ==
    \/ \E c \in Conns : Start(c)
    \/ \E c \in Conns : DelStep(c)
    \/ \E c \in Conns : LoopEnd(c)
    \/ \E c \in Conns : WriteOk(c)
    \/ \E c \in Conns : WriteErr(c)
    \/ \E c \in Conns : NextCmd(c)
    \/ OtherSet
    \/ OtherDel

Spec == Init /\ [][Next]_vars

\* the handler of c calls apply on the Del in hand, decoded or built with
\* Del::new, which consumes it
Handle(c) ==
    /\ del.some
    /\ Range(del.keys) \subseteq Keys
    /\ ApplyStarts(c, del.keys)
    /\ del' = NoDel
    /\ UNCHANGED <<parts, pos, ppc, pkeys, pres, reads, frame, enc>>

\* a connection's handler gets a Del with few keys
StartTwo(c) ==
    /\ \E ks \in SeqsUpTo(KeysTwo, MaxKeysTwo) : ApplyStarts(c, ks)
    /\ UNCHANGED codecVars

\* two connections each apply one Del command, concurrently, and no other
\* connection touches the Db, whose entries all hold the value 1
InitTwo ==
    /\ InitExec({1, 2})
    /\ \A k \in Keys : db[k] \in {Absent, 1}
    /\ InitCodec("idle", {<<>>})

NextTwo ==
    \/ \E c \in Conns : StartTwo(c)
    \/ \E c \in Conns : DelStep(c)
    \/ \E c \in Conns : LoopEnd(c)
    \/ \E c \in Conns : WriteOk(c)
    \/ \E c \in Conns : WriteErr(c)

SpecTwo == InitTwo /\ [][NextTwo]_vars

\* a received argument list is decoded and the Del encoded again (server
\* side), or a Del is built with Del::new and encoded (client side)
InitCodecSpec ==
    /\ InitExec({})
    /\ \/ InitCodec("start", SeqsUpTo(ArgFrames, MaxArgs))
       \/ InitCodec("idle", {<<>>})

NextCodec ==
    \/ ParseFirst
    \/ ParseLoop
    \/ NewDel
    \/ Encode

SpecCodec == InitCodecSpec /\ [][NextCodec]_vars

\* parse_frames is synchronous: once called it runs on until it returns
SpecCodecFair == SpecCodec /\ WF_vars(ParseFirst) /\ WF_vars(ParseLoop)

\* the whole path of a command: a received argument list is decoded, or a Del
\* is built with Del::new; the Del is applied by connection 1 or encoded
InitPipe ==
    /\ InitExec({1})
    /\ \/ InitCodec("start", SeqsUpTo(ArgFrames, MaxArgs))
       \/ InitCodec("idle", {<<>>})

NextPipe ==
    \/ ParseFirst
    \/ ParseLoop
    \/ NewDel
    \/ Encode
    \/ \E c \in Conns : Handle(c)
    \/ \E c \in Conns : DelStep(c)
    \/ \E c \in Conns : LoopEnd(c)
    \/ \E c \in Conns : WriteOk(c)
    \/ \E c \in Conns : WriteErr(c)

SpecPipe == InitPipe /\ [][NextPipe]_vars

\* ------------------------------------------------------------- properties
\* the keys of a Db
Present(d) == {k \in Keys : d[k] # Absent}

\* an apply of connection c has returned and no other connection changed the
\* Db since it started
Undisturbed(c) == pc[c] = "done" /\ snap[c].ok

\* C1: with no other connection changing the Db during the apply, the count
\* and the Integer reply are the number of distinct keys of the command that
\* were in the Db when the apply started; absent keys and repeated keys add
\* nothing
C1_ReplyCountsDistinctPresentKeys ==
    \A c \in Conns :
        Undisturbed(c) =>
            LET n == Cardinality(Range(cmd[c]) \cap Present(snap[c].db)) IN
            /\ count[c] = n
            /\ ret[c] = "Ok" => dst[c] = <<Integer(n)>>

\* Db {a}, keys [a, a]: Integer(1)
C1_Witness ==
    /\ Undisturbed(1)
    /\ Present(snap[1].db) = {KeyA}
    /\ cmd[1] = <<KeyA, KeyA>>
    /\ calls[1] = <<TRUE, FALSE>>
    /\ dst[1] = <<Integer(1)>>

\* C2: with no other connection changing the Db during the apply, the Db
\* afterwards is the Db before without the command's keys: named keys are
\* absent, every other key keeps its entry and value, no key is added
C2_StoreIsBeforeMinusKeys ==
    \A c \in Conns :
        Undisturbed(c) =>
            db = [k \in Keys |->
                    IF k \in Range(cmd[c]) THEN Absent ELSE snap[c].db[k]]

\* Db {a, b}, keys [a, b, c]: Db {} and Integer(2)
C2_Witness ==
    /\ Undisturbed(1)
    /\ Present(snap[1].db) = {KeyA, KeyB}
    /\ cmd[1] = <<KeyA, KeyB, KeyC>>
    /\ db = EmptyDb
    /\ dst[1] = <<Integer(2)>>

\* Db {}, keys [x]: Db unchanged and Integer(0); and a key the command does
\* not name keeps its value
C2_WitnessUntouched ==
    /\ Undisturbed(1)
    /\ cmd[1] = <<KeyA>>
    /\ snap[1].db = [k \in Keys |-> IF k = KeyB THEN 2 ELSE Absent]
    /\ db = snap[1].db
    /\ dst[1] = <<Integer(0)>>

\* is the element one next_string turns into a string
IsString(f) == f.type = "Simple" \/ (f.type = "Bulk" /\ ValidUtf8(f.data))
\* the string such an element stands for
ArgString(f) == IF f.type = "Simple" THEN f.data ELSE Utf8Decode(f.data)
\* the positions of the argument list whose element is no string
BadArgs == {i \in 1..Len(parts) : ~IsString(parts[i])}
\* parse_frames has returned and its Del, if any, is still in hand
Decoded == ppc = "ret" /\ frame = NoFrame

\* C3: over a cursor on a non-empty list of string elements parse_frames
\* returns Ok with exactly these strings as keys: same length, same order,
\* duplicates kept
C3_DecodeYieldsTheKeyList ==
    (Decoded /\ parts # <<>> /\ BadArgs = {}) =>
        /\ pres = "Ok"
        /\ del = SomeDel([i \in 1..Len(parts) |-> ArgString(parts[i])])

\* [a, é, a] is decoded as it stands, the repeated key kept
C3_Witness ==
    /\ Decoded
    /\ parts = <<Bulk(<<97>>), Bulk(<<195, 169>>), Bulk(<<97>>)>>
    /\ del = SomeDel(<<KeyA, KeyE, KeyA>>)

\* C4: on an empty argument list parse_frames fails with EndOfStream on its
\* first read and yields no Del; it returns Ok only after at least one key
\* was read
C4_EmptyListFails ==
    /\ (ppc = "ret" /\ parts = <<>>) =>
            pres = "EndOfStream" /\ del = NoDel /\ enc = NoDel /\ reads = 1
    /\ (ppc = "ret" /\ pres = "Ok") => reads >= 2 /\ Len(parts) >= 1
    /\ (Decoded /\ pres = "Ok") => del.some /\ Len(del.keys) >= 1
    /\ (ppc = "ret" /\ pres = "EndOfStream") => parts = <<>>

C4_Witness ==
    /\ ppc = "ret"
    /\ parts = <<>>
    /\ pres = "EndOfStream"
    /\ del = NoDel

\* C5: an argument list with an element that is no string makes parse_frames
\* fail with the not-a-string error, never Ok and never EndOfStream, wherever
\* the element stands; parse_frames stops at the first such element, drops
\* the keys read so far and yields no Del
C5_NonStringFails ==
    (ppc = "ret" /\ BadArgs # {}) =>
        /\ pres = "Other"
        /\ del = NoDel /\ enc = NoDel /\ frame = NoFrame
        /\ pkeys = <<>>
        /\ pos \in BadArgs /\ \A i \in BadArgs : pos <= i
        /\ reads = pos

\* the element in the middle of [a, 1, b] is an integer
C5_Witness ==
    /\ ppc = "ret"
    /\ parts = <<Bulk(<<97>>), Integer(1), Bulk(<<98>>)>>
    /\ pres = "Other"
    /\ pos = 2

\* the non-string element is the last one
C5_WitnessLast ==
    /\ ppc = "ret"
    /\ parts = <<Bulk(<<97>>), Simple(KeyA), Bulk(<<255>>)>>
    /\ pres = "Other"
    /\ pos = 3

\* C6: into_frame yields an Array of one Bulk per key after the Bulk "del":
\* n + 1 elements, the keys in their order, duplicates kept
C6_EncodeIsNamePlusKeys ==
    frame # NoFrame =>
        /\ enc.some
        /\ frame.type = "Array"
        /\ Len(frame.elems) = Len(enc.keys) + 1
        /\ frame.elems[1] = Bulk(DelName)
        /\ \A i \in 1..Len(enc.keys) :
               frame.elems[i + 1] = Bulk(Utf8Encode(enc.keys[i]))

\* Del::new([b, a, b]) encoded
C6_Witness ==
    /\ ppc = "idle"
    /\ enc = SomeDel(<<KeyB, KeyA, KeyB>>)
    /\ frame = Array(<<Bulk(DelName), Bulk(<<98>>), Bulk(<<97>>), Bulk(<<98>>)>>)

\* is every element of the argument list a Bulk holding a string
AllBulk == \A i \in 1..Len(parts) : parts[i].type = "Bulk" /\ IsString(parts[i])

\* C7: encoding the Del decoded from the arguments of a request ["del"] + K,
\* all Bulk, gives back an Array equal to the request
C7_EncodeOfDecodeIsTheRequest ==
    (ppc = "ret" /\ frame # NoFrame /\ AllBulk) =>
        frame = Array(<<Bulk(DelName)>> \o parts)

\* ["del", "a", "b"]
C7_Witness ==
    /\ ppc = "ret"
    /\ parts = <<Bulk(<<97>>), Bulk(<<98>>)>>
    /\ frame = Array(<<Bulk(DelName), Bulk(<<97>>), Bulk(<<98>>)>>)

\* the db.del calls of the apply that returned true
TrueCalls(c) == {i \in 1..Len(calls[c]) : calls[c][i]}

\* C8: whatever other connections do to the Db meanwhile, the count is the
\* number of db.del calls of the apply that returned true, it lies between 0
\* and the number of key occurrences of the command, and it is the Integer
\* replied
C8_CountIsTrueCallsWithinKeys ==
    \A c \in Conns :
        /\ Len(calls[c]) = idx[c]
        /\ count[c] = Cardinality(TrueCalls(c))
        /\ 0 <= count[c] /\ count[c] <= Len(cmd[c])
        /\ (pc[c] = "done" /\ ret[c] = "Ok") => dst[c] = <<Integer(count[c])>>

\* keys [a, a] with a set again by another connection between the two calls:
\* both calls return true and the reply is Integer(2)
C8_Witness ==
    /\ pc[1] = "done"
    /\ ~snap[1].ok
    /\ cmd[1] = <<KeyA, KeyA>>
    /\ calls[1] = <<TRUE, TRUE>>
    /\ dst[1] = <<Integer(2)>>

\* the step in which the apply of c returns the error of the write
WriteFails(c) == pc[c] = "write" /\ ret'[c] = "Err"

\* C9: when the write of the reply fails, apply returns the error at once:
\* the step leaves the Db as the key loop left it and writes nothing, and the
\* connection neither writes again nor runs another command
C9_WriteFailureKeepsDeletions ==
    [][\A c \in Conns :
          /\ WriteFails(c) => db' = db /\ dst' = dst /\ pc'[c] = "done"
          /\ ret[c] = "Err" =>
                /\ ret'[c] = "Err" /\ pc'[c] = "done"
                /\ dst'[c] = dst[c] /\ ncmds'[c] = ncmds[c]
                /\ calls'[c] = calls[c]]_vars

\* Db {a, b}, keys [a, b]: the write failed and both keys stay removed
C9_Witness ==
    /\ pc[1] = "done"
    /\ ret[1] = "Err"
    /\ snap[1].ok
    /\ Present(snap[1].db) = {KeyA, KeyB}
    /\ cmd[1] = <<KeyA, KeyB>>
    /\ db = EmptyDb
    /\ dst[1] = <<>>

\* the keys the loop of c has visited
Visited(c) == Range(SubSeq(cmd[c], 1, idx[c]))

\* C10: apply is not atomic across keys: while the loop runs, with no other
\* connection changing the Db, the shared Db already lacks the keys visited
\* so far and still holds every other entry, the command's later keys
\* included
C10_EachRemovalVisibleAtOnce ==
    \A c \in Conns :
        (pc[c] = "loop" /\ snap[c].ok) =>
            db = [k \in Keys |->
                    IF k \in Visited(c) THEN Absent ELSE snap[c].db[k]]

\* Db {a, b}, keys [a, b]: after the first call a is gone and b is still there
C10_Witness ==
    /\ pc[1] = "loop"
    /\ snap[1].ok
    /\ Present(snap[1].db) = {KeyA, KeyB}
    /\ cmd[1] = <<KeyA, KeyB>>
    /\ idx[1] = 1
    /\ Present(db) = {KeyB}

\* the db.del calls of the apply of c, in the order they were made
CallsOf(c) == SelectSeq(log, LAMBDA e : e.conn = c)
\* has the apply of c a key left to visit
InLoop(c) == pc[c] = "loop" /\ HasNext(cmd[c], idx[c])

\* C11: the db.del calls of one apply are made on the command's keys in
\* key-list order, one call per key occurrence, and all of them before the
\* loop is left; between two applies no order is imposed: whenever both have
\* a key left, either one can make the next call
C11_CallsInKeyOrderAndUnordered ==
    /\ \A c \in Conns :
          /\ Len(CallsOf(c)) = idx[c]
          /\ idx[c] <= Len(cmd[c])
          /\ \A i \in 1..idx[c] : CallsOf(c)[i].key = cmd[c][i]
          /\ pc[c] \in {"write", "done"} => idx[c] = Len(cmd[c])
    /\ (InLoop(1) /\ InLoop(2)) => (ENABLED DelStep(1)) /\ (ENABLED DelStep(2))

\* keys [a, b] on connection 1 and [b, a] on connection 2, the calls
\* alternating: 1 on a, 2 on b, 1 on b, 2 on a
C11_Witness ==
    /\ cmd[1] = <<KeyA, KeyB>>
    /\ cmd[2] = <<KeyB, KeyA>>
    /\ log = <<Call(1, KeyA, TRUE), Call(2, KeyB, TRUE),
               Call(1, KeyB, FALSE), Call(2, KeyA, FALSE)>>

\* the other order of the same calls: connection 2 makes both of its calls
\* between the two calls of connection 1
C11_WitnessNested ==
    /\ cmd[1] = <<KeyA, KeyB>>
    /\ cmd[2] = <<KeyB, KeyA>>
    /\ log = <<Call(1, KeyA, TRUE), Call(2, KeyB, TRUE),
               Call(2, KeyA, FALSE), Call(1, KeyB, FALSE)>>

\* C12: the write of the reply starts only when the loop has made its call
\* for the last key: while the loop runs nothing is written, from the start
\* of the write on every key has had its call and no further call is made,
\* and the Integer written is the count over all the calls
C12_WriteAfterWholeLoop ==
    \A c \in Conns :
        /\ pc[c] = "loop" => wr[c] = 0 /\ dst[c] = <<>>
        /\ pc[c] \in {"write", "done"} =>
              /\ idx[c] = Len(cmd[c])
              /\ Len(CallsOf(c)) = Len(cmd[c])
              /\ Len(calls[c]) = Len(cmd[c])
              /\ count[c] = Cardinality(TrueCalls(c))
              /\ dst[c] \in {<<>>, <<Integer(count[c])>>}

\* keys [a, b, c] with a and c in the Db: the write has started after three
\* calls, the count is 2
C12_Witness ==
    /\ pc[1] = "write"
    /\ cmd[1] = <<KeyA, KeyB, KeyC>>
    /\ calls[1] = <<TRUE, FALSE, TRUE>>
    /\ count[1] = 2
    /\ dst[1] = <<>>

\* connection c applies a command whose keys are those of its previous
\* command, no key of which was set since that one started
Repeated(c) == pc[c] \in {"loop", "write", "done"} /\ prev[c].ok

\* C13: a second apply with the keys of a completed first one, none of them
\* set in between, finds none of them: every call returns false, the reply is
\* Integer(0) and the Db is left as it was
C13_SecondApplyRepliesZero ==
    \A c \in Conns :
        Repeated(c) =>
            /\ cmd[c] = prev[c].keys
            /\ TrueCalls(c) = {}
            /\ count[c] = 0
            /\ (pc[c] = "done" /\ ret[c] = "Ok") => dst[c] = <<Integer(0)>>
            /\ snap[c].ok => db = snap[c].db

\* keys [a, b]: the first apply replied Integer(2), the second Integer(0)
C13_Witness ==
    /\ pc[1] = "done"
    /\ prev[1] = PrevCmd(<<KeyA, KeyB>>, 2)
    /\ cmd[1] = <<KeyA, KeyB>>
    /\ calls[1] = <<FALSE, FALSE>>
    /\ snap[1].ok
    /\ dst[1] = <<Integer(0)>>

\* the keys named by the command of connection 1 or of connection 2
Named == Range(cmd[1]) \cup Range(cmd[2])
\* the calls on key k, of either connection, that returned true
Counted(k) == {i \in 1..Len(log) : log[i].key = k /\ log[i].removed}

\* C14: two applies on two connections, no other connection touching the Db:
\* once both have returned, every key that was in the Db at the start and is
\* named by either command was counted by exactly one call of one of them, no
\* other key was counted, the two counts add up to the number of these keys,
\* and the Db is the Db at the start without the named keys
C14_TwoAppliesShareTheKeys ==
    (pc[1] = "done" /\ pc[2] = "done" /\ base.ok) =>
        LET removable == Named \cap Present(base.db) IN
        /\ \A k \in removable : Cardinality(Counted(k)) = 1
        /\ \A k \in Keys \ removable : Counted(k) = {}
        /\ count[1] + count[2] = Cardinality(removable)
        /\ \A c \in Conns : ret[c] = "Ok" => dst[c] = <<Integer(count[c])>>
        /\ db = [k \in Keys |-> IF k \in Named THEN Absent ELSE base.db[k]]

\* Db {a, b, c}, keys [a, b] and [b, a], the calls alternating: each apply
\* counts one key and replies Integer(1), and c stays
C14_Witness ==
    /\ pc[1] = "done" /\ pc[2] = "done"
    /\ Present(base.db) = Keys
    /\ cmd[1] = <<KeyA, KeyB>>
    /\ cmd[2] = <<KeyB, KeyA>>
    /\ calls[1] = <<TRUE, FALSE>>
    /\ calls[2] = <<TRUE, FALSE>>
    /\ dst[1] = <<Integer(1)>> /\ dst[2] = <<Integer(1)>>
    /\ Present(db) = {KeyC}

\* parse_frames has returned an error
DecodeFailed == ppc = "ret" /\ pres # "Ok"
\* a step of parse_frames (it reads) or of into_frame (it yields the frame)
CodecStep == reads' # reads \/ frame' # frame
\* some connection is inside apply
Applying == \E c \in Conns : pc[c] \in {"loop", "write"}

\* C15: decoding and encoding touch neither the Db nor a connection: a step
\* of parse_frames or of into_frame leaves db and dst as they are, the Db and
\* dst change only in a step of an apply, and after a failed decode no apply
\* has started: no db.del call was made and nothing was written
C15_CodecLeavesStoreAndChannel ==
    /\ [][CodecStep => db' = db /\ dst' = dst]_vars
    /\ [][(db' # db \/ dst' # dst) => Applying]_vars
    /\ [](DecodeFailed =>
            /\ log = <<>>
            /\ \A c \in Conns : pc[c] \in {"idle", "closed"} /\ dst[c] = <<>>
                                /\ ncmds[c] = 0)

\* the arguments [a, 1] with a, b and c in the Db: decoding failed and the
\* three keys are still there
C15_Witness ==
    /\ DecodeFailed
    /\ parts = <<Bulk(<<97>>), Integer(1)>>
    /\ Present(db) = Keys
    /\ dst[1] = <<>>

\* the arguments [a] decoded and encoded again, and nothing applied
C15_WitnessEncoded ==
    /\ ppc = "ret"
    /\ parts = <<Bulk(<<97>>)>>
    /\ frame = Array(<<Bulk(DelName), Bulk(<<97>>)>>)
    /\ Present(db) = Keys
    /\ dst[1] = <<>>

\* C18: a Del built with Del::new and no key is applied and encoded like any
\* other: its apply makes no db.del call, leaves the Db as it was and replies
\* Integer(0), and its frame is the Array of the Bulk "del" alone; a Del that
\* parse_frames returned has at least one key
C18_EmptyDelAcceptedOnlyByNew ==
    /\ (del = SomeDel(<<>>) /\ frame = NoFrame) => ENABLED Encode
    /\ (del = SomeDel(<<>>) /\ pc[1] = "idle" /\ ncmds[1] < MaxCmds) =>
            ENABLED Handle(1)
    /\ \A c \in Conns :
          (pc[c] \in {"loop", "write", "done"} /\ cmd[c] = <<>>) =>
              /\ ~ ENABLED DelStep(c)
              /\ CallsOf(c) = <<>>
              /\ count[c] = 0
              /\ snap[c].ok /\ db = snap[c].db
              /\ (pc[c] = "done" /\ ret[c] = "Ok") => dst[c] = <<Integer(0)>>
    /\ (frame # NoFrame /\ enc = SomeDel(<<>>)) => frame = Array(<<Bulk(DelName)>>)
    /\ ppc \in {"start", "loop"} => del = NoDel /\ enc = NoDel
    /\ ppc = "ret" =>
          /\ del.some => pres = "Ok" /\ Len(del.keys) >= 1
          /\ enc.some => pres = "Ok" /\ Len(enc.keys) >= 1
          /\ \A c \in Conns :
                pc[c] \in {"loop", "write", "done"} =>
                    pres = "Ok" /\ Len(cmd[c]) >= 1

\* with a, b and c in the Db, Del::new([]) was applied and replied
\* Integer(0), and another Del::new([]) was encoded
C18_Witness ==
    /\ ppc = "idle"
    /\ pc[1] = "done"
    /\ cmd[1] = <<>>
    /\ dst[1] = <<Integer(0)>>
    /\ Present(db) = Keys
    /\ enc = SomeDel(<<>>)
    /\ frame = Array(<<Bulk(DelName)>>)

\* the first position of the argument list whose element is no string
FirstBad == CHOOSE i \in BadArgs : \A j \in BadArgs : i <= j

\* C16: parse_frames returns on every finite argument list: over n elements
\* it makes at most n + 1 next_string calls, each taking the cursor one
\* element further while there is one and never back; when it returns Ok it
\* has read all n elements and found the cursor exhausted, and when it fails
\* on a non-string element at position i it has made exactly i calls
C16_DecodeTerminatesWithinReads ==
    /\ [](/\ reads <= Len(parts) + 1
          /\ pos <= Len(parts)
          /\ pos = IF reads <= Len(parts) THEN reads ELSE Len(parts))
    /\ []((ppc = "ret" /\ pres = "Ok") =>
            /\ pos = Len(parts) /\ reads = Len(parts) + 1
            /\ NextString(parts, pos).kind = "EndOfStream")
    /\ []((ppc = "ret" /\ pres = "Other") =>
            /\ BadArgs # {}
            /\ reads = FirstBad /\ pos = FirstBad)
    /\ [][/\ pos' >= pos /\ reads' >= reads /\ parts' = parts
          /\ reads' # reads =>
                /\ reads' = reads + 1
                /\ pos' = IF pos < Len(parts) THEN pos + 1 ELSE pos
          /\ ppc = "ret" => reads' = reads /\ pos' = pos]_vars
    /\ (ppc = "start") ~> (ppc = "ret")

\* [a, b, 1]: parse_frames failed at position 3 after three calls
C16_Witness ==
    /\ ppc = "ret"
    /\ parts = <<Bulk(<<97>>), Bulk(<<98>>), Integer(1)>>
    /\ pres = "Other"
    /\ reads = 3 /\ pos = 3

\* [a, b]: parse_frames returned Ok after three calls, the cursor exhausted
C16_WitnessOk ==
    /\ ppc = "ret"
    /\ parts = <<Bulk(<<97>>), Bulk(<<98>>)>>
    /\ pres = "Ok"
    /\ reads = 3 /\ pos = 2

\* C17: an apply calls write_frame once, after the loop, and the frame is an
\* Integer: when apply returns Ok exactly one frame, an Integer, was delivered
\* on the connection, and when it returns the error none was
C17_OneIntegerWrite ==
    \A c \in Conns :
        /\ wr[c] <= 1
        /\ pc[c] = "loop" => wr[c] = 0 /\ dst[c] = <<>>
        /\ pc[c] \in {"write", "done"} => wr[c] = 1
        /\ pc[c] = "write" => dst[c] = <<>> /\ ret[c] = "none"
        /\ pc[c] = "done" => ret[c] \in {"Ok", "Err"}
        /\ ret[c] = "Ok" =>
              /\ Len(dst[c]) = 1
              /\ dst[c][1].type = "Integer"
              /\ dst[c][1] = Integer(count[c])
        /\ ret[c] = "Err" => dst[c] = <<>>

\* keys [a, b], both in the Db: apply returned Ok after one write of Integer(2)
C17_Witness ==
    /\ pc[1] = "done"
    /\ ret[1] = "Ok"
    /\ cmd[1] = <<KeyA, KeyB>>
    /\ wr[1] = 1
    /\ dst[1] = <<Integer(2)>>

\* the write failed: apply returned the error after one write, nothing delivered
C17_WitnessErr ==
    /\ pc[1] = "done"
    /\ ret[1] = "Err"
    /\ cmd[1] = <<KeyA, KeyB>>
    /\ count[1] = 2
    /\ wr[1] = 1
    /\ dst[1] = <<>>

====
